---- MODULE Spec2Model ----
(***************************************************************************)
(* A model of the quark plugin (quark/plugin.py): the port, IP address and *)
(* MAC address bookkeeping of one network with one subnet and one MAC      *)
(* range, and the subnet route bookkeeping.                                *)
(*                                                                         *)
(* The IPAM driver (quark.ipam.QuarkIpam) and the persistence layer        *)
(* (quark.db.api) are called by plugin.py but are not part of the sources  *)
(* at hand; their operators below follow sections 4.2, 4.3 and 6 of the    *)
(* specification.  Everything else follows plugin.py line by line.         *)
(***************************************************************************)
EXTENDS Integers, Sequences, FiniteSets, TLC

\* ------------------------------------------------------------------ bounds
\* Addresses of the subnet: 1..NumAddrs.  NumAddrs + 1 is an address outside it.
NumAddrs == 2
\* Addresses of the MAC range: first_address = 1, last_address = NumMacs + 1.
NumMacs == 2
\* Port ids: 1..MaxPorts.
MaxPorts == 2
\* The clock runs from 0 to MaxTime.
MaxTime == 1
\* Longest fixed_ips list of a request.
MaxFixedIps == 2
\* Longest ip_addresses list kept on a port.
MaxPortAddrs == 2
\* Number of concurrent callers of create_port.
NumCallers == 2

\* CONF.QUARK.ipam_reuse_after, in clock ticks (one tick is the default of
\* 7200 seconds).
ipam_reuse_after == 1

VARIABLES
    clock,          \* the current time
    ip_addresses,   \* the IpAddress table: a sequence of records, id = index
    mac_addresses,  \* the MacAddress table: a sequence of records
    mac_address_ranges, \* the MacAddressRange table: a sequence of records
    ports,          \* the Port table: port id -> record
    calls,          \* create_port calls in flight, one per concurrent caller
    result,         \* what the last create_port or delete_port call did
    subnets,        \* the Subnet table: subnet id -> record
    routes,         \* the Route table: a sequence of records, in creation order
    route_calls,    \* create_route calls in flight, one per concurrent caller
    route_result,   \* what the last subnet or route call did and returned
    mac_range_call, \* a create_mac_address_range or _to_mac_range call: its
                    \* argument, how far it is and what it returned
    net,            \* the network of the ports and subnets: its record and
                    \* whether the backend driver has it
    net_result      \* the error the last delete_network call raised

portVars == <<clock, ip_addresses, mac_addresses, mac_address_ranges, ports, calls, result>>
routeVars == <<subnets, routes, route_calls, route_result>>
netVars == <<net, net_result>>
vars == <<portVars, routeVars, mac_range_call, netVars>>

Addrs == 1..NumAddrs
Macs == 1..NumMacs
PortIds == 1..MaxPorts
Callers == 1..NumCallers

\* ------------------------------------------------------------ helpers
Range(s) == {s[i] : i \in DOMAIN s}

Min(S) == CHOOSE x \in S : \A y \in S : x <= y

\* Sequences over S of length lo..hi.
SeqsOf(S, lo, hi) == UNION {[1..n -> S] : n \in lo..hi}

\* s without every occurrence of x.
RECURSIVE Without(_, _)
Without(s, x) ==
    IF s = <<>> THEN <<>>
    ELSE IF Head(s) = x THEN Without(Tail(s), x)
    ELSE <<Head(s)>> \o Without(Tail(s), x)

\* list.remove(x): s without its first occurrence of x.
RECURSIVE RemoveFirst(_, _)
RemoveFirst(s, x) ==
    IF s = <<>> THEN <<>>
    ELSE IF Head(s) = x THEN Tail(s)
    ELSE <<Head(s)>> \o RemoveFirst(Tail(s), x)

NoPort == [exists |-> FALSE, mac_address |-> 0, ip_addresses |-> <<>>]

\* The ports an address record is associated with (address["ports"]).
PortsOf(pt, id) == {p \in PortIds : pt[p].exists /\ id \in Range(pt[p].ip_addresses)}

\* What the last create_port or delete_port call did, as its caller sees it:
\* the handler, the errors it raised and the collaborators it invoked, in
\* order.  The other handlers leave NoResult.
NoResult == [op |-> "none", err |-> {}, steps |-> <<>>]

Res(op, err, steps) == [op |-> op, err |-> err, steps |-> steps]

\* ------------------------------------------------ the IPAM driver (4.2, 4.3)
\* Records whose cooldown has elapsed at time now.
Reusable(tbl, now) ==
    {i \in DOMAIN tbl : tbl[i].deallocated /\ now - tbl[i].deallocated_at >= ipam_reuse_after}

Reactivate(tbl, i) ==
    [tbl EXCEPT ![i] = [@ EXCEPT !.deallocated = FALSE, !.deallocated_at = 0]]

NewRecord(a) == [address |-> a, deallocated |-> FALSE, deallocated_at |-> 0]

\* AllocateFrom with the selection and the marking in two transactions: the
\* address selected is returned, the table is left as it was read.
AllocateFromUnmarked(tbl, now, pool, exhausted) ==
    LET reusable == Reusable(tbl, now)
        unused == pool \ {tbl[i].address : i \in DOMAIN tbl}
    IN  IF reusable # {}
        THEN [err |-> "", tbl |-> tbl, id |-> Min(reusable)]
        ELSE IF unused # {}
        THEN [err |-> "", tbl |-> Append(tbl, NewRecord(Min(unused))), id |-> Len(tbl) + 1]
        ELSE [err |-> exhausted, tbl |-> tbl, id |-> 0]

\* Reuse a cooled-down record, else mint the lowest unused address of pool, in
\* one exclusive transaction (section 5).
AllocateFrom(tbl, now, pool, exhausted) ==
    LET reusable == Reusable(tbl, now)
        unused == pool \ {tbl[i].address : i \in DOMAIN tbl}
    IN  IF reusable # {}
        THEN [err |-> "", tbl |-> Reactivate(tbl, Min(reusable)), id |-> Min(reusable)]
        ELSE IF unused # {}
        THEN [err |-> "", tbl |-> Append(tbl, NewRecord(Min(unused))), id |-> Len(tbl) + 1]
        ELSE [err |-> exhausted, tbl |-> tbl, id |-> 0]

\* allocate_ip_address(context, net_id, port_id, reuse_after, version, ip_address):
\* explicit = 0 stands for no ip_address.
allocate_ip_address(tbl, now, explicit) ==
    IF explicit = 0 THEN AllocateFrom(tbl, now, Addrs, "IpAddressExhausted")
    ELSE IF explicit \notin Addrs
    THEN [err |-> "IpAddressNotInSubnet", tbl |-> tbl, id |-> 0]
    ELSE LET have == {i \in DOMAIN tbl : tbl[i].address = explicit}
         IN  IF have = {}
             THEN [err |-> "", tbl |-> Append(tbl, NewRecord(explicit)), id |-> Len(tbl) + 1]
             ELSE LET i == Min(have)
                  IN  IF ~tbl[i].deallocated
                      THEN [err |-> "", tbl |-> tbl, id |-> i]
                      ELSE IF i \in Reusable(tbl, now)
                      THEN [err |-> "", tbl |-> Reactivate(tbl, i), id |-> i]
                      ELSE [err |-> "IpAddressExhausted", tbl |-> tbl, id |-> 0]

\* allocate_mac_address(context, net_id, port_id, reuse_after): id is the index
\* of the record, whose address is the MAC handed out.
allocate_mac_address(tbl, now, ranges) ==
    AllocateFrom(tbl, now,
                 UNION {ranges[i].first_address..(ranges[i].last_address - 1) : i \in DOMAIN ranges},
                 "MacAddressRangeExhausted")

\* deallocate_mac_address(context, address): idempotent.
deallocate_mac_address(tbl, address, now) ==
    [i \in DOMAIN tbl |->
        IF tbl[i].address = address /\ ~tbl[i].deallocated
        THEN [tbl[i] EXCEPT !.deallocated = TRUE, !.deallocated_at = now]
        ELSE tbl[i]]

\* deallocate_ip_address(context, port, ipam_reuse_after): the addresses of no
\* other port are marked; idempotent.
deallocate_ip_address(tbl, pt, p, now) ==
    [i \in DOMAIN tbl |->
        IF PortsOf(pt, i) = {p} /\ ~tbl[i].deallocated
        THEN [tbl[i] EXCEPT !.deallocated = TRUE, !.deallocated_at = now]
        ELSE tbl[i]]

\* ------------------------------------------------- subnets and routes
\* Width of an address in bits: addresses are 0..2^AddrBits - 1.
AddrBits == 2
\* Subnet ids: 1..MaxSubnets.
MaxSubnets == 1
\* Longest Route table.
MaxRoutes == 3
\* Longest host_routes list of a request.
MaxHostRoutes == 2
\* Longest dns_nameservers list of a request.
MaxDns == 3
\* Number of concurrent callers of create_route.
NumRouteCallers == 2

SubnetIds == 1..MaxSubnets
RouteCallers == 1..NumRouteCallers

RECURSIVE Pow2(_)
Pow2(n) == IF n = 0 THEN 1 ELSE 2 * Pow2(n - 1)

\* The text of a CIDR, "ip/prefixlen" in the notation of its IP version.
Cidr(version, ip, prefixlen) == [version |-> version, ip |-> ip, prefixlen |-> prefixlen]

\* netaddr.IPNetwork(text): the network of the text, its host bits dropped.
IPNetwork(text) ==
    LET size == Pow2(AddrBits - text.prefixlen)
        first == text.ip - (text.ip % size)
    IN  [version |-> text.version, first |-> first, last |-> first + size - 1]

\* DEFAULT_ROUTE = netaddr.IPNetwork("0.0.0.0/0"), and str(DEFAULT_ROUTE).
DEFAULT_ROUTE == IPNetwork(Cidr(4, 0, 0))
DefaultRouteText == Cidr(4, 0, 0)

\* netaddr's "a in b" for two networks: FALSE across IP versions.
NetIn(a, b) == a.version = b.version /\ b.first <= a.first /\ a.last <= b.last

\* A test that looks one way only: the new destination inside a stored one.
RouteConflictsOneWay(route_cidr, sub_route_cidr) == NetIn(route_cidr, sub_route_cidr)

\* The test of create_route, line 877.
RouteConflicts(route_cidr, sub_route_cidr) ==
    NetIn(route_cidr, sub_route_cidr) \/ NetIn(sub_route_cidr, route_cidr)

\* The destinations and next hops requests name: the IPv4 default route in its
\* canonical text and in one with host bits set, an IPv4 network inside it and
\* the IPv6 default route.
Destinations == {Cidr(4, 0, 0), Cidr(4, 1, 0), Cidr(4, 0, 1), Cidr(6, 0, 0)}
Nexthops == {1, 2}
HostRoutes == [destination : Destinations, nexthop : Nexthops]
\* The host_routes lists of requests.
HostRouteLists == SeqsOf(HostRoutes, 0, MaxHostRoutes)
SubnetCidrs == {Cidr(4, Pow2(AddrBits - 1), 1), Cidr(6, 0, 1)}
\* The DNS nameserver addresses requests name, and their lists.
DnsIps == {1, 2, 3}
DnsLists == SeqsOf(DnsIps, 0, MaxDns)

NoSubnet == [exists |-> FALSE, cidr |-> Cidr(4, 0, 0), dns_nameservers |-> <<>>]

NoRouteResult == [op |-> "none", err |-> "", gateway_ip |-> 0]

\* What a call returned: the error it raised, and for a subnet call the
\* gateway_ip of the subnet dict (0 when it has none).
RouteRes(op, err, gateway_ip) == [op |-> op, err |-> err, gateway_ip |-> gateway_ip]

IdleRouteCall == [pc |-> "idle", subnet_id |-> 0, cidr |-> Cidr(4, 0, 0), gateway |-> 0]

InitRoutes ==
    /\ subnets = [s \in SubnetIds |-> NoSubnet]
    /\ routes = <<>>
    /\ route_calls = [c \in RouteCallers |-> IdleRouteCall]
    /\ route_result = NoRouteResult

\* db_api.route_create(context, cidr=..., gateway=..., subnet_id=...)
route_create(tbl, cidr, gateway, subnet_id) ==
    Append(tbl, [cidr |-> cidr, gateway |-> gateway, subnet_id |-> subnet_id])

\* route_create for every entry of a host_routes list, in order.
RECURSIVE CreateRoutes(_, _, _)
CreateRoutes(tbl, host_routes, subnet_id) ==
    IF host_routes = <<>> THEN tbl
    ELSE CreateRoutes(route_create(tbl, Head(host_routes).destination,
                                   Head(host_routes).nexthop, subnet_id),
                      Tail(host_routes), subnet_id)

\* FirstDefault that finds no default route in any list.
NoDefault(host_routes) == 0

\* The loops of lines 250-253 and 305-308: the index of the first entry whose
\* destination is the default route, 0 when there is none.
FirstDefault(host_routes) ==
    LET hits == {i \in DOMAIN host_routes :
                   IPNetwork(host_routes[i].destination) = DEFAULT_ROUTE}
    IN  IF hits = {} THEN 0 ELSE Min(hits)

\* The Route records of a subnet, as indices of the table.
RoutesOf(tbl, subnet_id) == {i \in DOMAIN tbl : tbl[i].subnet_id = subnet_id}

\* s without the entries at the indices in D.
RECURSIVE Drop(_, _)
Drop(s, D) ==
    IF s = <<>> THEN <<>>
    ELSE LET rest == Drop(SubSeq(s, 1, Len(s) - 1), D)
         IN  IF Len(s) \in D THEN rest ELSE Append(rest, s[Len(s)])

\* Gateway that takes the network address itself.
DefaultGatewayNetworkAddress(cidr) == IPNetwork(cidr).first

\* Line 234: the gateway of a request that specifies none.
DefaultGateway(cidr) == IPNetwork(cidr).first + 1

\* create_subnet, the whole handler, on the network of the model.  gateway_ip = 0
\* stands for ATTR_NOT_SPECIFIED; dns_ips = <<>> for no nameservers, given
\* empty or not specified.
CreateSubnet(cidr, gateway_ip, host_routes, dns_ips) ==
    /\ \E s \in SubnetIds : ~subnets[s].exists
    /\ LET id == Min({s \in SubnetIds : ~subnets[s].exists})
           gw == IF gateway_ip = 0 THEN DefaultGateway(cidr) ELSE gateway_ip
           d == FirstDefault(host_routes)
           all == IF d = 0
                  THEN Append(host_routes, [destination |-> DefaultRouteText, nexthop |-> gw])
                  ELSE host_routes
       IN  /\ Len(routes) + Len(all) <= MaxRoutes
           /\ subnets' = [subnets EXCEPT ![id] =
                            [exists |-> TRUE, cidr |-> cidr, dns_nameservers |-> dns_ips]]
           /\ routes' = CreateRoutes(routes, all, id)
           /\ route_result' = RouteRes("create_subnet", "",
                                       IF d = 0 THEN gw ELSE host_routes[d].nexthop)
    /\ UNCHANGED <<route_calls, portVars, mac_range_call, netVars>>

\* _make_subnet_dict: the gateway of the first default route of the subnet, 0
\* when it has none.
GatewayOf(tbl, subnet_id) ==
    LET hits == {i \in RoutesOf(tbl, subnet_id) : IPNetwork(tbl[i].cidr) = DEFAULT_ROUTE}
    IN  IF hits = {} THEN 0 ELSE tbl[Min(hits)].gateway

\* _make_subnet_dict: the host_routes of a subnet, its routes in stored order.
RECURSIVE HostRoutesOf(_, _)
HostRoutesOf(tbl, subnet_id) ==
    IF tbl = <<>> THEN <<>>
    ELSE (IF Head(tbl).subnet_id = subnet_id
          THEN <<[destination |-> Head(tbl).cidr, nexthop |-> Head(tbl).gateway]>>
          ELSE <<>>) \o HostRoutesOf(Tail(tbl), subnet_id)

\* Lines 303-323 of update_subnet: with a gateway_ip and no default route among
\* the new routes, the route stored under the text of DEFAULT_ROUTE gets the
\* gateway, and is created when there is none.
SetGateway(tbl, id, gateway_ip, host_routes) ==
    IF gateway_ip = 0 \/ FirstDefault(host_routes) # 0 THEN tbl
    ELSE LET hits == {i \in RoutesOf(tbl, id) : tbl[i].cidr = DefaultRouteText}
         IN  IF hits # {} THEN [tbl EXCEPT ![Min(hits)].gateway = gateway_ip]
             ELSE route_create(tbl, DefaultRouteText, gateway_ip, id)

\* The gateway_ip update_subnet returns after storing the new routes: that of
\* the last default route of the list, 0 (None) when it has none.
LastDefaultNexthop(host_routes) ==
    LET hits == {i \in DOMAIN host_routes :
                   IPNetwork(host_routes[i].destination) = DEFAULT_ROUTE}
    IN  IF hits = {} THEN 0 ELSE host_routes[CHOOSE i \in hits : \A j \in hits : j <= i].nexthop

\* Lines 328-337 of update_subnet: a list that is not empty replaces the
\* nameservers of the subnet.
ReplaceDns(dns_nameservers, dns_ips) ==
    IF dns_ips = <<>> THEN dns_nameservers ELSE dns_ips

\* update_subnet, the whole handler.  gateway_ip = 0 stands for no gateway_ip in
\* the request; host_routes = <<>> and dns_ips = <<>> stand for a request that
\* gives the empty list and for one that gives none (lines 299-300).
\* subnet_db["routes"] is read after the route of line 320 was created, and
\* lists it.
UpdateSubnet(id, gateway_ip, host_routes, dns_ips) ==
    /\ IF ~subnets[id].exists
       THEN /\ route_result' = RouteRes("update_subnet", "SubnetNotFound", 0)
            /\ routes' = routes
            /\ subnets' = subnets
       ELSE LET t1 == SetGateway(routes, id, gateway_ip, host_routes)
                t2 == IF host_routes = <<>> THEN t1 ELSE Drop(t1, RoutesOf(t1, id))
            IN  /\ Len(t1) <= MaxRoutes
                /\ Len(t2) + Len(host_routes) <= MaxRoutes
                /\ routes' = CreateRoutes(t2, host_routes, id)
                /\ subnets' = [subnets EXCEPT ![id].dns_nameservers =
                                 ReplaceDns(@, dns_ips)]
                /\ route_result' = RouteRes("update_subnet", "",
                                            IF host_routes = <<>> THEN GatewayOf(t1, id)
                                            ELSE LastDefaultNexthop(host_routes))
    /\ UNCHANGED <<route_calls, portVars, mac_range_call, netVars>>

\* Lines 873-879 of create_route: whether a stored route of the subnet contains
\* the new destination or is contained in it.
ConflictsWith(tbl, subnet_id, cidr) ==
    \E i \in RoutesOf(tbl, subnet_id) : RouteConflicts(IPNetwork(cidr), IPNetwork(tbl[i].cidr))

\* create_route, the whole handler.  found: whether db_api.subnet_find(context,
\* id=id) returns anything; id there is the builtin function, not subnet_id, so
\* what it returns does not depend on the subnet the request names.
CreateRoute(subnet_id, cidr, gateway, found) ==
    /\ IF ~found
       THEN /\ route_result' = RouteRes("create_route", "SubnetNotFound", 0)
            /\ routes' = routes
       ELSE IF ConflictsWith(routes, subnet_id, cidr)
       THEN /\ route_result' = RouteRes("create_route", "RouteConflict", 0)
            /\ routes' = routes
       ELSE /\ Len(routes) < MaxRoutes
            /\ routes' = route_create(routes, cidr, gateway, subnet_id)
            /\ route_result' = RouteRes("create_route", "", 0)
    /\ UNCHANGED <<subnets, route_calls, portVars, mac_range_call, netVars>>

\* delete_route, the whole handler; id is the index of the route in the table.
DeleteRoute(id) ==
    /\ IF id \notin DOMAIN routes
       THEN /\ route_result' = RouteRes("delete_route", "RouteNotFound", 0)
            /\ routes' = routes
       ELSE /\ routes' = Drop(routes, {id})
            /\ route_result' = RouteRes("delete_route", "", 0)
    /\ UNCHANGED <<subnets, route_calls, portVars, mac_range_call, netVars>>

\* The subnet ids create_route requests name: those of the subnets there are.
\* (An id of no subnet is never the id of a later one: ids are generated afresh.)
RequestSubnetIds == {s \in SubnetIds : subnets[s].exists}

NextRoute ==
    \/ \E cidr \in SubnetCidrs, gateway_ip \in {0} \cup Nexthops,
          host_routes \in HostRouteLists :
           CreateSubnet(cidr, gateway_ip, host_routes, <<>>)
    \/ \E id \in SubnetIds, gateway_ip \in {0} \cup Nexthops,
          host_routes \in HostRouteLists :
           UpdateSubnet(id, gateway_ip, host_routes, <<>>)
    \/ \E subnet_id \in RequestSubnetIds, cidr \in Destinations, gateway \in Nexthops,
          found \in BOOLEAN :
           CreateRoute(subnet_id, cidr, gateway, found)
    \/ \E id \in 1..MaxRoutes : DeleteRoute(id)

\* ------------------------------------------------------ MAC range texts
\* A text is a sequence of characters.  A 48-bit number is a record of its
\* upper part hi and its lower 24 bits lo: hi * 2^24 + lo.

\* Most octet groups in the prefix of a request.
MaxOctets == 5

HexChars == <<"0", "1", "2", "3", "4", "5", "6", "7", "8", "9", "A", "B", "C", "D", "E", "F">>
LowerHexChars == <<"0", "1", "2", "3", "4", "5", "6", "7", "8", "9", "a", "b", "c", "d", "e", "f">>
DecChars == <<"0", "1", "2", "3", "4", "5", "6", "7", "8", "9">>

IsHex(c) == c \in Range(HexChars) \cup Range(LowerHexChars)

\* The value of a hexadecimal digit, of either case.
HexVal(c) ==
    (CHOOSE i \in 1..16 : HexChars[i] = c \/ LowerHexChars[i] = c) - 1

\* str.upper() of a hexadecimal digit.
Upper(c) == HexChars[HexVal(c) + 1]

\* val.split(sep): the pieces of val between the occurrences of sep.
RECURSIVE Split(_, _)
Split(val, sep) ==
    IF \A i \in DOMAIN val : val[i] # sep THEN <<val>>
    ELSE LET i == Min({j \in DOMAIN val : val[j] = sep})
         IN  <<SubSeq(val, 1, i - 1)>> \o Split(SubSeq(val, i + 1, Len(val)), sep)

\* Remove that strips nothing.
RemoveNothing(text, c) == text

\* text.replace(c, ''): text without the character c.
RECURSIVE Remove(_, _)
Remove(text, c) ==
    IF text = <<>> THEN <<>>
    ELSE (IF Head(text) = c THEN <<>> ELSE <<Head(text)>>) \o Remove(Tail(text), c)

\* "0" * n
RECURSIVE Zeros(_)
Zeros(n) == IF n <= 0 THEN <<>> ELSE <<"0">> \o Zeros(n - 1)

\* int(text) for a text of decimal digits; -1 stands for the ValueError any
\* other text raises.
RECURSIVE DecValue(_, _)
DecValue(text, acc) ==
    IF text = <<>> THEN acc
    ELSE DecValue(Tail(text),
                  10 * acc + (CHOOSE i \in 1..10 : DecChars[i] = Head(text)) - 1)

IntOf(text) ==
    IF text = <<>> \/ \E i \in DOMAIN text : text[i] \notin Range(DecChars) THEN -1
    ELSE DecValue(text, 0)

\* "%s" % n for n >= 0.
RECURSIVE DecText(_)
DecText(n) ==
    IF n < 10 THEN <<DecChars[n + 1]>>
    ELSE DecText(n \div 10) \o <<DecChars[(n % 10) + 1]>>

\* The value of a text of hexadecimal digits.
RECURSIVE HexValue(_, _)
HexValue(text, acc) ==
    IF text = <<>> THEN acc ELSE HexValue(Tail(text), 16 * acc + HexVal(Head(text)))

\* int(prefix, base=16) for a text of twelve hexadecimal digits.
WideOf(prefix) ==
    [hi |-> HexValue(SubSeq(prefix, 1, 6), 0), lo |-> HexValue(SubSeq(prefix, 7, 12), 0)]

\* a + 2^k for a 48-bit number a and k >= 0.
WidePlusPow2(a, k) ==
    IF k >= 24 THEN [hi |-> a.hi + Pow2(k - 24), lo |-> a.lo]
    ELSE LET lo == a.lo + Pow2(k)
         IN  [hi |-> a.hi + (lo \div Pow2(24)), lo |-> lo % Pow2(24)]

\* Whether netaddr.EUI(prefix) accepts the text: twelve hexadecimal digits.
\* (The texts of the model hold no "." and the delimiters are stripped before.)
EUIAccepts(prefix) == Len(prefix) = 12 /\ \A i \in DOMAIN prefix : IsHex(prefix[i])

\* str(netaddr.EUI(prefix)).replace("-", ":"): upper-case octets joined by ":".
EUIText(prefix) ==
    LET octet(i) == <<Upper(prefix[2 * i - 1]), Upper(prefix[2 * i])>>
    IN  octet(1) \o <<":">> \o octet(2) \o <<":">> \o octet(3) \o <<":">> \o
        octet(4) \o <<":">> \o octet(5) \o <<":">> \o octet(6)

\* What _to_mac_range returns or raises: err is "" and cidr, first_address and
\* last_address are the triple returned, or err names the exception.
MacRange(err, cidr, first_address, last_address) ==
    [err |-> err, cidr |-> cidr, first_address |-> first_address, last_address |-> last_address]

NoWide == [hi |-> 0, lo |-> 0]

MacRangeError(err) == MacRange(err, <<>>, NoWide, NoWide)

\* MaskOf with the full width as the mask of a text that gives none.
MaskOfFullWidth(cidr_parts, diff) ==
    IF Len(cidr_parts) > 1 THEN IntOf(cidr_parts[2]) ELSE 48

\* The mask of lines 838-841: -1 stands for the ValueError of int().
MaskOf(cidr_parts, diff) ==
    IF Len(cidr_parts) > 1 THEN IntOf(cidr_parts[2]) ELSE 48 - diff * 4

\* _to_mac_range(val)
_to_mac_range(val) ==
    LET cidr_parts == Split(val, "/")
        prefix == Remove(Remove(cidr_parts[1], ":"), "-")
        prefix_length == Len(prefix)
        diff == 12 - prefix_length
        mask == MaskOf(cidr_parts, diff)
        padded == prefix \o Zeros(diff)
        prefix_int == WideOf(padded)
    IN  IF prefix_length < 6 \/ prefix_length > 10
        THEN MacRangeError("InvalidMacAddressRange")
        ELSE IF mask = -1                 \* int(cidr_parts[1]), line 839
        THEN MacRangeError("ValueError")
        ELSE IF 48 - mask < 0             \* 1 << (48 - mask), line 842
        THEN MacRangeError("ValueError")
        ELSE IF ~EUIAccepts(padded)       \* netaddr.AddrFormatError, line 846
        THEN MacRangeError("InvalidMacAddressRange")
        ELSE MacRange("", EUIText(padded) \o <<"/">> \o DecText(mask),
                      prefix_int, WidePlusPow2(prefix_int, 48 - mask))

\* The texts requests give: up to MaxOctets octets, then nothing, one digit,
\* a character that is no hexadecimal digit or a lower-case octet, the groups
\* joined by ":" or by "-"; then no mask, or "/" and a mask.
OctetTexts == {<<"A", "A">>, <<"B", "B">>, <<"C", "C">>}
TailTexts == {<<>>, <<"0">>, <<"R">>, <<"c", "d">>}
Delimiters == {":", "-"}
MaskTexts == {<<>>, <<"/", "0">>, <<"/", "2", "4">>, <<"/", "4", "9">>, <<"/", "x">>}

RECURSIVE Join(_, _)
Join(groups, delimiter) ==
    IF groups = <<>> THEN <<>>
    ELSE IF Len(groups) = 1 THEN groups[1]
    ELSE groups[1] \o <<delimiter>> \o Join(Tail(groups), delimiter)

MacRangeTexts ==
    {Join(octets \o (IF tail = <<>> THEN <<>> ELSE <<tail>>), delimiter) \o mask :
        octets \in SeqsOf(OctetTexts, 0, MaxOctets), tail \in TailTexts,
        delimiter \in Delimiters, mask \in MaskTexts}

\* The network the ports and subnets are on, created and known to the backend.
TheNetwork == [exists |-> TRUE, backend |-> TRUE]

NoMacRangeCall == [val |-> <<>>, pc |-> "idle", ret |-> MacRangeError("")]

\* A call of _to_mac_range(val) on its own.
ToMacRange ==
    /\ mac_range_call.pc = "called"
    /\ mac_range_call' = [mac_range_call EXCEPT !.pc = "returned",
                                                !.ret = _to_mac_range(mac_range_call.val)]
    /\ UNCHANGED <<portVars, routeVars, netVars>>

\* create_mac_address_range, the whole handler, on the text of the request.
CreateMacAddressRangeCidr ==
    /\ mac_range_call.pc = "called"
    /\ LET r == _to_mac_range(mac_range_call.val)
       IN  /\ mac_range_call' = [mac_range_call EXCEPT
                                   !.pc = IF r.err = "" THEN "created" ELSE "raised",
                                   !.ret = r]
           /\ mac_address_ranges' =
                IF r.err # "" THEN mac_address_ranges
                ELSE Append(mac_address_ranges,
                            [cidr |-> r.cidr, first_address |-> r.first_address,
                             last_address |-> r.last_address])
    /\ UNCHANGED <<clock, ip_addresses, mac_addresses, ports, calls, result, routeVars, netVars>>

\* ------------------------------------------------------------ plugin.py
Init ==
    /\ clock = 0
    /\ ip_addresses = <<>>
    /\ mac_addresses = <<>>
    /\ mac_address_ranges = <<>>
    /\ ports = [p \in PortIds |-> NoPort]
    /\ calls = [c \in Callers |-> [pc |-> "idle", port_id |-> 0, ip |-> 0, mac |-> 0]]
    /\ result = NoResult
    /\ mac_range_call = NoMacRangeCall
    /\ net = TheNetwork
    /\ net_result = ""
    /\ InitRoutes

\* uuidutils.generate_uuid(): an id no port and no call in flight has.
FreePortIds == {p \in PortIds : ~ports[p].exists /\ \A c \in Callers : calls[c].port_id # p}

\* db_api.port_create(context, addresses=addresses, mac_address=mac["address"], ...)
port_create(pt, p, addresses, mac) ==
    [pt EXCEPT ![p] = [exists |-> TRUE, mac_address |-> mac, ip_addresses |-> addresses]]

\* create_port, the whole handler.  backend_ok: whether net_driver.create_port
\* returns.  Nothing undoes the allocations when a later step raises.
CreatePort(backend_ok) ==
    /\ FreePortIds # {}
    /\ LET p == Min(FreePortIds)
           r1 == allocate_ip_address(ip_addresses, clock, 0)
           r2 == allocate_mac_address(mac_addresses, clock, mac_address_ranges)
       IN  IF r1.err # ""
           THEN /\ result' = Res("create_port", {r1.err}, <<"allocate_ip_address">>)
                /\ UNCHANGED <<ip_addresses, mac_addresses, ports>>
           ELSE IF r2.err # ""
           THEN /\ ip_addresses' = r1.tbl
                /\ result' = Res("create_port", {r2.err},
                                 <<"allocate_ip_address", "allocate_mac_address">>)
                /\ UNCHANGED <<mac_addresses, ports>>
           ELSE /\ ip_addresses' = r1.tbl
                /\ mac_addresses' = r2.tbl
                /\ IF backend_ok
                   THEN /\ ports' = port_create(ports, p, <<r1.id>>, r2.tbl[r2.id].address)
                        /\ result' = Res("create_port", {},
                                         <<"allocate_ip_address", "allocate_mac_address",
                                           "net_driver.create_port", "port_create">>)
                   ELSE /\ ports' = ports
                        /\ result' = Res("create_port", {"BackendError"},
                                         <<"allocate_ip_address",
                                           "allocate_mac_address", "net_driver.create_port">>)
    /\ UNCHANGED <<clock, mac_address_ranges, calls>>
    /\ UNCHANGED <<routeVars, mac_range_call, netVars>>

\* delete_port with the call of the backend driver ahead of the deallocations:
\* a failure of the driver leaves the port and its addresses as they were.
DeletePortBackendFirst(p, mac_ok, ip_ok, backend_ok) ==
    /\ IF ~ports[p].exists
       THEN /\ result' = Res("delete_port", {"PortNotFound"}, <<>>)
            /\ UNCHANGED <<ip_addresses, mac_addresses, ports>>
       ELSE IF ~backend_ok
       THEN /\ result' = Res("delete_port", {"BackendError"}, <<"net_driver.delete_port">>)
            /\ UNCHANGED <<ip_addresses, mac_addresses, ports>>
       ELSE /\ mac_addresses' = deallocate_mac_address(mac_addresses, ports[p].mac_address, clock)
            /\ ip_addresses' = deallocate_ip_address(ip_addresses, ports, p, clock)
            /\ ports' = [ports EXCEPT ![p] = NoPort]
            /\ result' = Res("delete_port", {},
                             <<"net_driver.delete_port", "deallocate_mac_address",
                               "deallocate_ip_address", "port_delete">>)
    /\ UNCHANGED <<clock, mac_address_ranges, calls>>
    /\ UNCHANGED <<routeVars, mac_range_call, netVars>>

\* delete_port, the whole handler.  mac_ok, ip_ok, backend_ok: whether the
\* MAC deallocator, the IP deallocator and net_driver.delete_port return.
DeletePort(p, mac_ok, ip_ok, backend_ok) ==
    /\ IF ~ports[p].exists
       THEN /\ result' = Res("delete_port", {"PortNotFound"}, <<>>)
            /\ UNCHANGED <<ip_addresses, mac_addresses, ports>>
       ELSE IF ~mac_ok
       THEN /\ result' = Res("delete_port", {"MacDeallocationFailed"}, <<"deallocate_mac_address">>)
            /\ UNCHANGED <<ip_addresses, mac_addresses, ports>>
       ELSE /\ mac_addresses' = deallocate_mac_address(mac_addresses, ports[p].mac_address, clock)
            /\ IF ~ip_ok
               THEN /\ result' = Res("delete_port", {"IpDeallocationFailed"},
                                     <<"deallocate_mac_address", "deallocate_ip_address">>)
                    /\ UNCHANGED <<ip_addresses, ports>>
               ELSE /\ ip_addresses' = deallocate_ip_address(ip_addresses, ports, p, clock)
                    /\ ports' = [ports EXCEPT ![p] = NoPort]
                    /\ result' = Res("delete_port", IF backend_ok THEN {} ELSE {"BackendError"},
                                     <<"deallocate_mac_address", "deallocate_ip_address",
                                       "port_delete", "net_driver.delete_port">>)
    /\ UNCHANGED <<clock, mac_address_ranges, calls>>
    /\ UNCHANGED <<routeVars, mac_range_call, netVars>>

\* One entry of fixed_ips: {} (kind "none"), {"ip_id": v} or {"ip_address": v}.
FixedIps ==
    {[kind |-> "none", v |-> 0]}
    \cup {[kind |-> "ip_id", v |-> i] : i \in 1..NumAddrs}
    \cup {[kind |-> "ip_address", v |-> a] : a \in 1..(NumAddrs + 1)}

\* db_api.ip_address_find(context, ip_address=..., network_id=..., scope=ONE):
\* the record of that address, deallocated or not; 0 when there is none.
ip_address_find(tbl, a) ==
    LET have == {i \in DOMAIN tbl : tbl[i].address = a}
    IN  IF have = {} THEN 0 ELSE Min(have)

\* The loop of post_update_port over fixed_ips: every entry is looked up or
\* allocated, and address is left naming the last entry's record (0 for None).
RECURSIVE ResolveFixedIps(_, _, _, _)
ResolveFixedIps(tbl, now, fixed_ips, address) ==
    IF fixed_ips = <<>> THEN [err |-> "", tbl |-> tbl, id |-> address]
    ELSE LET ip == Head(fixed_ips)
             found == IF ip.kind = "ip_id"
                      THEN (IF ip.v \in DOMAIN tbl THEN ip.v ELSE 0)
                      ELSE IF ip.kind = "ip_address" THEN ip_address_find(tbl, ip.v)
                      ELSE 0
             r == IF ip.kind = "ip_id" \/ found # 0
                  THEN [err |-> "", tbl |-> tbl, id |-> found]
                  ELSE allocate_ip_address(tbl, now, ip.v)
         IN  IF r.err # "" THEN r
             ELSE ResolveFixedIps(r.tbl, now, Tail(fixed_ips), r.id)

Explicit(fixed_ips) ==
    {fixed_ips[i].v : i \in {j \in DOMAIN fixed_ips : fixed_ips[j].kind = "ip_address"}}

\* post_update_port, the whole handler.
PostUpdatePort(p, fixed_ips) ==
    /\ IF ~ports[p].exists
       THEN /\ result' = NoResult
            /\ UNCHANGED <<ip_addresses, ports>>
       ELSE IF fixed_ips = <<>>
       THEN /\ result' = NoResult
            /\ UNCHANGED <<ip_addresses, ports>>
       ELSE LET r == ResolveFixedIps(ip_addresses, clock, fixed_ips, 0)
            IN  IF r.err # ""
                THEN /\ result' = NoResult
                     /\ ip_addresses' = r.tbl
                     /\ ports' = ports
                ELSE IF r.id = 0
                THEN /\ result' = NoResult
                     /\ ip_addresses' = r.tbl
                     /\ ports' = ports
                ELSE /\ r.id \in Range(ports[p].ip_addresses)
                        \/ Len(ports[p].ip_addresses) < MaxPortAddrs
                     /\ ip_addresses' = [r.tbl EXCEPT ![r.id].deallocated = FALSE]
                     /\ ports' = IF r.id \in Range(ports[p].ip_addresses) THEN ports
                                 ELSE [ports EXCEPT ![p].ip_addresses = Append(@, r.id)]
                     /\ result' = NoResult
    /\ UNCHANGED <<clock, mac_addresses, mac_address_ranges, calls>>
    /\ UNCHANGED <<routeVars, mac_range_call, netVars>>

\* create_ip_address, the whole handler; the port is looked up by port_id.
\* explicit = 0 stands for no ip_address in the request.
CreateIpAddress(p, explicit) ==
    /\ IF ~ports[p].exists
       THEN /\ result' = NoResult
            /\ UNCHANGED <<ip_addresses, ports>>
       ELSE LET r == allocate_ip_address(ip_addresses, clock, explicit)
            IN  IF r.err # ""
                THEN /\ result' = NoResult
                     /\ UNCHANGED <<ip_addresses, ports>>
                ELSE /\ Len(ports[p].ip_addresses) < MaxPortAddrs
                     /\ ip_addresses' = r.tbl
                     /\ ports' = [ports EXCEPT ![p].ip_addresses = Append(@, r.id)]
                     /\ result' = NoResult
    /\ UNCHANGED <<clock, mac_addresses, mac_address_ranges, calls>>
    /\ UNCHANGED <<routeVars, mac_range_call, netVars>>

\* S in ascending order: the order in which address["ports"] lists the ports.
RECURSIVE SetToSeq(_)
SetToSeq(S) == IF S = {} THEN <<>> ELSE <<Min(S)>> \o SetToSeq(S \ {Min(S)})

\* The ports the loop "for port in old_ports: port['ip_addresses'].remove(address)"
\* visits.  old_ports is address['ports'] itself, and removing the address from
\* a port takes that port out of address['ports'] (the relationship is a backref),
\* so the loop, advancing its index over the shrinking list, visits every other
\* port: the 1st, 3rd, ... of the original list.
VisitedOldPorts(old_ports) ==
    {old_ports[i] : i \in {j \in DOMAIN old_ports : j % 2 = 1}}

\* update_ip_address, the whole handler.  given = FALSE stands for a request
\* without port_ids (None).
UpdateIpAddress(id, given, port_ids) ==
    /\ IF id \notin DOMAIN ip_addresses
       THEN /\ result' = NoResult
            /\ ports' = ports
       ELSE IF ~given
       THEN /\ result' = NoResult
            /\ ports' = ports
       ELSE LET visited == VisitedOldPorts(SetToSeq(PortsOf(ports, id)))
                removed == [p \in PortIds |->
                              IF p \in visited
                              THEN [ports[p] EXCEPT !.ip_addresses = RemoveFirst(@, id)]
                              ELSE ports[p]]
                found == {p \in Range(port_ids) : ports[p].exists}
            IN  IF port_ids = <<>>
                THEN /\ ports' = removed
                     /\ result' = NoResult
                ELSE IF Cardinality(found) # Len(port_ids)
                THEN /\ ports' = removed
                     /\ result' = NoResult
                ELSE /\ \A p \in found : Len(removed[p].ip_addresses) < MaxPortAddrs
                     /\ ports' = [p \in PortIds |->
                                    IF p \in found
                                    THEN [removed[p] EXCEPT !.ip_addresses = Append(@, id)]
                                    ELSE removed[p]]
                     /\ result' = NoResult
    /\ UNCHANGED <<clock, ip_addresses, mac_addresses, mac_address_ranges, calls>>
    /\ UNCHANGED <<routeVars, mac_range_call, netVars>>

\* disassociate_port, the whole handler.
DisassociatePort(p, ip_address_id) ==
    /\ IF ~(ports[p].exists /\ ip_address_id \in Range(ports[p].ip_addresses))
       THEN /\ result' = NoResult
            /\ ports' = ports
       ELSE /\ ports' = [ports EXCEPT ![p].ip_addresses = Without(@, ip_address_id)]
            /\ result' = NoResult
    /\ UNCHANGED <<clock, ip_addresses, mac_addresses, mac_address_ranges, calls>>
    /\ UNCHANGED <<routeVars, mac_range_call, netVars>>

\* The loop of update_port over fixed_ips, each entry the ip_address it names
\* (0: the entry lacks subnet_id or ip_address).
RECURSIVE AllocateFixedIps(_, _, _, _)
AllocateFixedIps(tbl, now, fixed_ips, addresses) ==
    IF fixed_ips = <<>> THEN [err |-> "", tbl |-> tbl, addresses |-> addresses]
    ELSE IF Head(fixed_ips) = 0
    THEN [err |-> "BadRequest", tbl |-> tbl, addresses |-> addresses]
    ELSE LET r == allocate_ip_address(tbl, now, Head(fixed_ips))
         IN  IF r.err # "" THEN [err |-> r.err, tbl |-> r.tbl, addresses |-> addresses]
             ELSE AllocateFixedIps(r.tbl, now, Tail(fixed_ips), Append(addresses, r.id))

\* update_port, the whole handler; db_api.port_update stores addresses as the
\* port's ip_addresses.
UpdatePort(p, fixed_ips) ==
    /\ Len(fixed_ips) <= MaxPortAddrs
    /\ IF ~ports[p].exists
       THEN /\ result' = NoResult
            /\ UNCHANGED <<ip_addresses, ports>>
       ELSE IF fixed_ips = <<>>
       THEN /\ result' = NoResult
            /\ UNCHANGED <<ip_addresses, ports>>
       ELSE LET r == AllocateFixedIps(ip_addresses, clock, fixed_ips, <<>>)
            IN  /\ ip_addresses' = r.tbl
                /\ IF r.err # ""
                   THEN /\ ports' = ports
                        /\ result' = NoResult
                   ELSE /\ ports' = [ports EXCEPT ![p].ip_addresses = r.addresses]
                        /\ result' = NoResult
    /\ UNCHANGED <<clock, mac_addresses, mac_address_ranges, calls>>
    /\ UNCHANGED <<routeVars, mac_range_call, netVars>>

\* create_mac_address_range, with the range _to_mac_range computes taken as
\* first_address = 1 and last_address = 1 + size; the model keeps one range.
CreateMacAddressRange(size) ==
    /\ mac_address_ranges = <<>>
    /\ mac_address_ranges' = <<[first_address |-> 1, last_address |-> 1 + size]>>
    /\ result' = NoResult
    /\ UNCHANGED <<clock, ip_addresses, mac_addresses, ports, calls>>
    /\ UNCHANGED <<routeVars, mac_range_call, netVars>>

\* Time passes.
Tick ==
    /\ clock < MaxTime
    /\ clock' = clock + 1
    /\ result' = NoResult
    /\ UNCHANGED <<ip_addresses, mac_addresses, mac_address_ranges, ports, calls>>
    /\ UNCHANGED <<routeVars, mac_range_call, netVars>>

Next ==
    \/ \E backend_ok \in BOOLEAN : CreatePort(backend_ok)
    \/ \E p \in PortIds, mac_ok, ip_ok, backend_ok \in BOOLEAN :
           DeletePort(p, mac_ok, ip_ok, backend_ok)
    \/ \E p \in PortIds, fixed_ips \in SeqsOf(FixedIps, 0, MaxFixedIps) :
           PostUpdatePort(p, fixed_ips)
    \/ \E p \in PortIds, explicit \in 0..(NumAddrs + 1) : CreateIpAddress(p, explicit)
    \/ \E id \in 1..NumAddrs, given \in BOOLEAN, port_ids \in SeqsOf(PortIds, 0, 2) :
           UpdateIpAddress(id, given, port_ids)
    \/ \E p \in PortIds, id \in 1..NumAddrs : DisassociatePort(p, id)
    \/ \E p \in PortIds, fixed_ips \in SeqsOf(0..(NumAddrs + 1), 0, MaxFixedIps) :
           UpdatePort(p, fixed_ips)
    \/ \E size \in 1..NumMacs : CreateMacAddressRange(size)
    \/ Tick

Spec == Init /\ [][Next]_vars

\* ------------------------------------------------------- delete_network
\* The subnet an address record belongs to: the addresses are dealt out to the
\* subnets of the network in turn.
SubnetOf(address) == ((address - 1) % MaxSubnets) + 1

\* subnet.allocated_ips: the records of the subnet that are not deallocated.
allocated_ips(tbl, s) ==
    {i \in DOMAIN tbl : SubnetOf(tbl[i].address) = s /\ ~tbl[i].deallocated}

\* _delete_subnet for each subnet of the list in turn, up to the first that
\* raises: the error and the Subnet table left behind.
RECURSIVE DeleteSubnets(_, _, _)
DeleteSubnets(tbl, addresses, ids) ==
    IF ids = <<>> THEN [err |-> "", tbl |-> tbl]
    ELSE IF allocated_ips(addresses, Head(ids)) # {}
    THEN [err |-> "SubnetInUse", tbl |-> tbl]
    ELSE DeleteSubnets([tbl EXCEPT ![Head(ids)] = NoSubnet], addresses, Tail(ids))

\* delete_network, the whole handler.  backend_ok: whether
\* net_driver.delete_network returns.
DeleteNetwork(backend_ok) ==
    /\ IF ~net.exists
       THEN /\ net_result' = "NetworkNotFound"
            /\ UNCHANGED <<net, subnets>>
       ELSE IF \E p \in PortIds : ports[p].exists
       THEN /\ net_result' = "NetworkInUse"
            /\ UNCHANGED <<net, subnets>>
       ELSE IF ~backend_ok
       THEN /\ net_result' = "BackendError"
            /\ UNCHANGED <<net, subnets>>
       ELSE LET r == DeleteSubnets(subnets, ip_addresses,
                                   SetToSeq({s \in SubnetIds : subnets[s].exists}))
            IN  /\ subnets' = r.tbl
                /\ net_result' = r.err
                /\ net' = IF r.err # "" THEN [net EXCEPT !.backend = FALSE]
                          ELSE [exists |-> FALSE, backend |-> FALSE]
    /\ result' = NoResult
    /\ UNCHANGED <<clock, ip_addresses, mac_addresses, mac_address_ranges, ports, calls>>
    /\ UNCHANGED <<routes, route_calls, route_result, mac_range_call>>

\* A network with its subnets, no port and no address yet.
InitNet ==
    /\ clock = 0
    /\ ip_addresses = <<>>
    /\ mac_addresses = <<>>
    /\ mac_address_ranges = <<>>
    /\ ports = [p \in PortIds |-> NoPort]
    /\ calls = [c \in Callers |-> [pc |-> "idle", port_id |-> 0, ip |-> 0, mac |-> 0]]
    /\ result = NoResult
    /\ mac_range_call = NoMacRangeCall
    /\ net = TheNetwork
    /\ net_result = ""
    /\ subnets = [s \in SubnetIds |->
                    [exists |-> TRUE, cidr |-> Cidr(4, 0, 1), dns_nameservers |-> <<>>]]
    /\ routes = <<>>
    /\ route_calls = [c \in RouteCallers |-> IdleRouteCall]
    /\ route_result = NoRouteResult

\* The port handlers that take ports and addresses on and off the network
\* (create_port raises NetworkNotFound at line 590 once the network is gone),
\* and delete_network.
NextNet ==
    \/ \E size \in 1..NumMacs : CreateMacAddressRange(size)
    \/ \E backend_ok \in BOOLEAN : net.exists /\ CreatePort(backend_ok)
    \/ \E p \in PortIds, mac_ok, ip_ok, backend_ok \in BOOLEAN :
           DeletePort(p, mac_ok, ip_ok, backend_ok)
    \/ \E p \in PortIds, id \in 1..NumAddrs : DisassociatePort(p, id)
    \/ Tick
    \/ \E backend_ok \in BOOLEAN : DeleteNetwork(backend_ok)

SpecNet == InitNet /\ [][NextNet]_vars

\* ------------------------------------------- concurrent create_port calls
\* create_port step by step, one call per caller: every call of the handler to
\* the IPAM driver or the persistence layer is one step, and the steps of
\* different callers interleave.
IdleCall == [pc |-> "idle", port_id |-> 0, ip |-> 0, mac |-> 0]

\* k IP addresses and j MAC addresses were handed out and deallocated at time 0.
Deallocated(k) == [i \in 1..k |-> [address |-> i, deallocated |-> TRUE, deallocated_at |-> 0]]

InitCreate ==
    /\ clock = 0
    /\ \E k \in 0..NumAddrs, j \in 0..NumMacs :
           /\ j <= k
           /\ ip_addresses = Deallocated(k)
           /\ mac_addresses = Deallocated(j)
    /\ mac_address_ranges = <<[first_address |-> 1, last_address |-> 1 + NumMacs]>>
    /\ ports = [p \in PortIds |-> NoPort]
    /\ calls = [c \in Callers |-> IdleCall]
    /\ result = NoResult
    /\ mac_range_call = NoMacRangeCall
    /\ net = TheNetwork
    /\ net_result = ""
    /\ InitRoutes

\* Lines 586-595: the port id, then ipam_driver.allocate_ip_address.
CreatePortAllocateIp(c) ==
    /\ calls[c].pc = "idle"
    /\ FreePortIds # {}
    /\ LET r == allocate_ip_address(ip_addresses, clock, 0)
       IN  IF r.err # ""
           THEN /\ calls' = [calls EXCEPT ![c].pc = "failed"]
                /\ result' = Res("create_port", {r.err}, <<"allocate_ip_address">>)
                /\ ip_addresses' = ip_addresses
           ELSE /\ calls' = [calls EXCEPT ![c] = [pc |-> "ip_allocated",
                                                  port_id |-> Min(FreePortIds),
                                                  ip |-> r.id, mac |-> 0]]
                /\ ip_addresses' = r.tbl
                /\ result' = result
    /\ UNCHANGED <<clock, mac_addresses, mac_address_ranges, ports>>
    /\ UNCHANGED <<routeVars, mac_range_call, netVars>>

\* Lines 596-599: ipam_driver.allocate_mac_address.
CreatePortAllocateMac(c) ==
    /\ calls[c].pc = "ip_allocated"
    /\ LET r == allocate_mac_address(mac_addresses, clock, mac_address_ranges)
       IN  IF r.err # ""
           THEN /\ calls' = [calls EXCEPT ![c].pc = "failed"]
                /\ result' = Res("create_port", {r.err},
                                 <<"allocate_ip_address", "allocate_mac_address">>)
                /\ mac_addresses' = mac_addresses
           ELSE /\ calls' = [calls EXCEPT ![c].pc = "mac_allocated",
                                          ![c].mac = r.tbl[r.id].address]
                /\ mac_addresses' = r.tbl
                /\ result' = result
    /\ UNCHANGED <<clock, ip_addresses, mac_address_ranges, ports>>
    /\ UNCHANGED <<routeVars, mac_range_call, netVars>>

\* Lines 600-609: net_driver.create_port, then db_api.port_create.
CreatePortCommit(c, backend_ok) ==
    /\ calls[c].pc = "mac_allocated"
    /\ IF backend_ok
       THEN /\ ports' = port_create(ports, calls[c].port_id, <<calls[c].ip>>, calls[c].mac)
            /\ calls' = [calls EXCEPT ![c].pc = "done"]
            /\ result' = Res("create_port", {},
                             <<"allocate_ip_address", "allocate_mac_address",
                               "net_driver.create_port", "port_create">>)
       ELSE /\ ports' = ports
            /\ calls' = [calls EXCEPT ![c].pc = "failed"]
            /\ result' = Res("create_port", {"BackendError"},
                             <<"allocate_ip_address", "allocate_mac_address",
                               "net_driver.create_port">>)
    /\ UNCHANGED <<clock, ip_addresses, mac_addresses, mac_address_ranges>>
    /\ UNCHANGED <<routeVars, mac_range_call, netVars>>

NextCreate ==
    \/ \E c \in Callers : CreatePortAllocateIp(c)
    \/ \E c \in Callers : CreatePortAllocateMac(c)
    \/ \E c \in Callers, backend_ok \in BOOLEAN : CreatePortCommit(c, backend_ok)
    \/ Tick

SpecCreate == InitCreate /\ [][NextCreate]_vars

\* ----------------------------------------------------- MAC ranges alone
\* One create_mac_address_range or _to_mac_range call on a text.
InitMacRange ==
    /\ clock = 0
    /\ ip_addresses = <<>>
    /\ mac_addresses = <<>>
    /\ mac_address_ranges = <<>>
    /\ ports = [p \in PortIds |-> NoPort]
    /\ calls = [c \in Callers |-> IdleCall]
    /\ result = NoResult
    /\ net = TheNetwork
    /\ net_result = ""
    /\ InitRoutes
    /\ \E val \in MacRangeTexts :
         mac_range_call = [val |-> val, pc |-> "called", ret |-> MacRangeError("")]

NextMacRange ==
    \/ ToMacRange
    \/ CreateMacAddressRangeCidr

SpecMacRange == InitMacRange /\ [][NextMacRange]_vars

\* ------------------------------------------------------ nameservers alone
\* create_subnet and update_subnet requests that carry nameservers and neither
\* gateway_ip nor host_routes.
NextDns ==
    \/ \E cidr \in SubnetCidrs, dns_ips \in DnsLists : CreateSubnet(cidr, 0, <<>>, dns_ips)
    \/ \E id \in SubnetIds, dns_ips \in DnsLists : UpdateSubnet(id, 0, <<>>, dns_ips)

SpecDns == Init /\ [][NextDns]_vars

\* ------------------------------------------------- subnets and routes alone
\* The subnet and route handlers, each call running to its end before the
\* next one starts.
SpecRoute == Init /\ [][NextRoute]_vars

\* --------------------------------------------------- concurrent create_route
\* create_route holds no lock and opens no transaction around its check and its
\* insert: between the read of the subnet's routes (line 873) and route_create
\* (line 880) other calls run.  Calls start on a table a create_subnet,
\* update_subnet or delete_route left behind.
InitRouteConc ==
    /\ clock = 0
    /\ ip_addresses = <<>>
    /\ mac_addresses = <<>>
    /\ mac_address_ranges = <<>>
    /\ ports = [p \in PortIds |-> NoPort]
    /\ calls = [c \in Callers |-> IdleCall]
    /\ result = NoResult
    /\ mac_range_call = NoMacRangeCall
    /\ net = TheNetwork
    /\ net_result = ""
    /\ subnets = [s \in SubnetIds |-> [exists |-> TRUE, cidr |-> Cidr(4, 0, 1), dns_nameservers |-> <<>>]]
    /\ \E host_routes \in SeqsOf(HostRoutes, 0, 1) : routes = CreateRoutes(<<>>, host_routes, 1)
    /\ route_calls = [c \in RouteCallers |-> IdleRouteCall]
    /\ route_result = NoRouteResult

\* Lines 864-879: the lookups and the conflict check, on the routes stored now.
CreateRouteCheck(c, subnet_id, cidr, gateway, found) ==
    /\ route_calls[c].pc = "idle"
    /\ route_calls' = [route_calls EXCEPT ![c] =
          [pc |-> IF ~found THEN "SubnetNotFound"
                  ELSE IF ConflictsWith(routes, subnet_id, cidr) THEN "RouteConflict"
                  ELSE "checked",
           subnet_id |-> subnet_id, cidr |-> cidr, gateway |-> gateway]]
    /\ UNCHANGED <<subnets, routes, route_result, portVars, mac_range_call, netVars>>

\* Line 880: route_create, for a call whose check passed.
CreateRouteInsert(c) ==
    /\ route_calls[c].pc = "checked"
    /\ Len(routes) < MaxRoutes
    /\ routes' = route_create(routes, route_calls[c].cidr, route_calls[c].gateway,
                              route_calls[c].subnet_id)
    /\ route_calls' = [route_calls EXCEPT ![c].pc = "done"]
    /\ UNCHANGED <<subnets, route_result, portVars, mac_range_call, netVars>>

NextRouteConc ==
    \/ \E c \in RouteCallers, subnet_id \in SubnetIds, cidr \in Destinations,
          gateway \in Nexthops, found \in BOOLEAN :
           CreateRouteCheck(c, subnet_id, cidr, gateway, found)
    \/ \E c \in RouteCallers : CreateRouteInsert(c)

SpecRouteConc == InitRouteConc /\ [][NextRouteConc]_vars

\* ------------------------------------------- create_route on any destination
\* The calls of create_route of the section above, their destinations drawn from
\* every IPv4 text of the address width and two IPv6 texts, on a subnet holding
\* no route or one route of any of these destinations.
OverlapCidrs ==
    {Cidr(4, ip, prefixlen) : ip \in 0..(Pow2(AddrBits) - 1), prefixlen \in 0..AddrBits}
      \cup {Cidr(6, 0, 0), Cidr(6, 0, AddrBits)}

InitOverlap ==
    /\ clock = 0
    /\ ip_addresses = <<>>
    /\ mac_addresses = <<>>
    /\ mac_address_ranges = <<>>
    /\ ports = [p \in PortIds |-> NoPort]
    /\ calls = [c \in Callers |-> IdleCall]
    /\ result = NoResult
    /\ mac_range_call = NoMacRangeCall
    /\ net = TheNetwork
    /\ net_result = ""
    /\ subnets = [s \in SubnetIds |-> [exists |-> TRUE, cidr |-> Cidr(4, 0, 1), dns_nameservers |-> <<>>]]
    /\ \/ routes = <<>>
       \/ \E cidr \in OverlapCidrs : routes = route_create(<<>>, cidr, 1, 1)
    /\ route_calls = [c \in RouteCallers |-> IdleRouteCall]
    /\ route_result = NoRouteResult

NextOverlap ==
    \/ \E c \in RouteCallers, subnet_id \in SubnetIds, cidr \in OverlapCidrs,
          gateway \in Nexthops, found \in BOOLEAN :
           CreateRouteCheck(c, subnet_id, cidr, gateway, found)
    \/ \E c \in RouteCallers : CreateRouteInsert(c)

SpecOverlap == InitOverlap /\ [][NextOverlap]_vars

\* ------------------------------------------------------------ properties
Active(tbl) == {i \in DOMAIN tbl : ~tbl[i].deallocated}

\* C1: the MAC addresses, and the IP addresses, that concurrent create_port
\* calls were handed, and those of the ports they created, are pairwise distinct.
C1_ConcurrentAllocationsDistinct ==
    /\ \A c, d \in Callers :
          c # d =>
            /\ (calls[c].ip # 0 /\ calls[d].ip # 0) =>
                  ip_addresses[calls[c].ip].address # ip_addresses[calls[d].ip].address
            /\ (calls[c].mac # 0 /\ calls[d].mac # 0) => calls[c].mac # calls[d].mac
    /\ \A p, q \in PortIds :
          (p # q /\ ports[p].exists /\ ports[q].exists) =>
            /\ ports[p].mac_address # ports[q].mac_address
            /\ {ip_addresses[i].address : i \in Range(ports[p].ip_addresses)}
                 \cap {ip_addresses[i].address : i \in Range(ports[q].ip_addresses)} = {}

\* Every concurrent call has created its port, and the MAC range is used up.
C1_Witness ==
    /\ \A c \in Callers : calls[c].pc = "done"
    /\ Cardinality({p \in PortIds : ports[p].exists}) = NumCallers
    /\ Len(mac_addresses) = NumMacs

\* C2: no address record, IP or MAC, goes from deallocated to active before
\* ipam_reuse_after has passed since its deallocation.
C2_NoReuseBeforeCooldown ==
    [][/\ \A i \in DOMAIN ip_addresses :
             (ip_addresses[i].deallocated /\ ~ip_addresses'[i].deallocated)
                => clock' - ip_addresses[i].deallocated_at >= ipam_reuse_after
       /\ \A i \in DOMAIN mac_addresses :
             (mac_addresses[i].deallocated /\ ~mac_addresses'[i].deallocated)
                => clock' - mac_addresses[i].deallocated_at >= ipam_reuse_after]_vars

\* C3: a create_port call that fails on the MAC allocation leaves no IP address
\* active that was not active before the call.
C3_IpRolledBackOnMacFailure ==
    [][(result'.op = "create_port" /\ "MacAddressRangeExhausted" \in result'.err)
          => Active(ip_addresses') \subseteq Active(ip_addresses)]_vars

\* C4: a delete_port call on an existing port invokes both deallocators,
\* whichever of them fails.
C4_BothDeallocatorsInvoked ==
    (result.op = "delete_port" /\ "PortNotFound" \notin result.err)
       => {"deallocate_mac_address", "deallocate_ip_address"} \subseteq Range(result.steps)

C6_NoOverlappingRoutes ==
    \A i, j \in DOMAIN routes :
        (i # j /\ routes[i].subnet_id = routes[j].subnet_id)
        => ~NetIn(IPNetwork(routes[i].cidr), IPNetwork(routes[j].cidr))

\* C7: every subnet has at most one stored route whose destination is the
\* default network.
C7_AtMostOneDefaultRoute ==
    \A s \in SubnetIds :
        Cardinality({i \in RoutesOf(routes, s) :
                       IPNetwork(routes[i].cidr) = DEFAULT_ROUTE}) <= 1

\* C8: of two concurrent create_route calls on one subnet whose destinations
\* overlap, at most one stores its route.
C8_OverlappingCallsNotBothStored ==
    \A c, d \in RouteCallers :
        (/\ c # d
         /\ route_calls[c].pc = "done"
         /\ route_calls[d].pc = "done"
         /\ route_calls[c].subnet_id = route_calls[d].subnet_id)
        => ~RouteConflicts(IPNetwork(route_calls[c].cidr), IPNetwork(route_calls[d].cidr))

\* A post_update_port or create_ip_address step that names the explicit
\* address a for port p, none of the addresses the request names being refused.
RequestsExplicit(p, a) ==
    \/ \E fixed_ips \in SeqsOf(FixedIps, 1, MaxFixedIps) :
          /\ a \in Explicit(fixed_ips)
          /\ ResolveFixedIps(ip_addresses, clock, fixed_ips, 0).err = ""
          /\ PostUpdatePort(p, fixed_ips)
    \/ CreateIpAddress(p, a)

\* C9: a request naming, for the existing port p, an explicit address that is
\* active on another port leaves one record of that address, associated with both ports.
C9_ExplicitAddressShared ==
    [][\A p \in PortIds, a \in Addrs :
          LET i == ip_address_find(ip_addresses, a)
          IN  (/\ ports[p].exists
               /\ i # 0
               /\ ~ip_addresses[i].deallocated
               /\ PortsOf(ports, i) \ {p} # {}
               /\ RequestsExplicit(p, a))
              => /\ Cardinality({j \in DOMAIN ip_addresses' :
                                   ip_addresses'[j].address = a}) = 1
                 /\ (PortsOf(ports, i) \cup {p}) \subseteq PortsOf(ports', i)]_vars

\* C10: every IpAddress record with deallocated = false is associated with at
\* least one port.
C10_ActiveAddressHasPort ==
    \A i \in Active(ip_addresses) : PortsOf(ports, i) # {}

\* The prefix of a MAC range text, its delimiters stripped.
StrippedPrefix(val) == Remove(Remove(Split(val, "/")[1], ":"), "-")

\* C11: _to_mac_range of the canonical text it returned succeeds and returns
\* the same canonical text, first and last address.
C11_CanonicalRoundTrip ==
    (mac_range_call.pc = "returned" /\ mac_range_call.ret.err = "")
    => _to_mac_range(mac_range_call.ret.cidr) = mac_range_call.ret

\* C12: "AA:BB:CC/24", "AA:BB:CC", "AA-BB-CC" and "AA-BB-CC/24" all give the
\* canonical text "AA:BB:CC:00:00:00/24", first 0xAABBCC000000 and last
\* 0xAABBCD000000.
C12_ThreeOctetForms ==
    (/\ mac_range_call.pc = "returned"
     /\ mac_range_call.val \in
          {<<"A", "A", ":", "B", "B", ":", "C", "C", "/", "2", "4">>,
           <<"A", "A", ":", "B", "B", ":", "C", "C">>,
           <<"A", "A", "-", "B", "B", "-", "C", "C">>,
           <<"A", "A", "-", "B", "B", "-", "C", "C", "/", "2", "4">>})
    => /\ mac_range_call.ret.err = ""
       /\ mac_range_call.ret.cidr =
            <<"A", "A", ":", "B", "B", ":", "C", "C", ":", "0", "0", ":", "0", "0", ":",
              "0", "0", "/", "2", "4">>
       /\ mac_range_call.ret.first_address = [hi |-> 11189196, lo |-> 0]
       /\ mac_range_call.ret.last_address = [hi |-> 11189197, lo |-> 0]

\* The hyphenated three-octet prefix with no mask has been parsed.
C12_Witness ==
    /\ mac_range_call.pc = "returned"
    /\ mac_range_call.val = <<"A", "A", "-", "B", "B", "-", "C", "C">>
    /\ mac_range_call.ret.err = ""

\* C13: a text whose stripped prefix has fewer than 6 or more than 10
\* characters, or holds a character that is no hexadecimal digit, fails with
\* InvalidMacAddressRange.
C13_OnlyInvalidRange ==
    LET prefix == StrippedPrefix(mac_range_call.val)
    IN  (/\ mac_range_call.pc = "returned"
         /\ \/ Len(prefix) < 6
            \/ Len(prefix) > 10
            \/ \E i \in DOMAIN prefix : ~IsHex(prefix[i]))
        => mac_range_call.ret.err = "InvalidMacAddressRange"

\* C14: for an accepted text with a prefix of d hexadecimal digits, the
\* canonical text has twelve digits and the mask 4 * d, or the mask given;
\* first is the value of the prefix padded with zeros to twelve digits, and
\* last exceeds first by 2^(48 - mask).
C14_PaddingAndMask ==
    LET val == mac_range_call.val
        ret == mac_range_call.ret
        prefix == StrippedPrefix(val)
        d == Len(prefix)
        given == Split(val, "/")
        mask == IF Len(given) > 1 THEN IntOf(given[2]) ELSE 4 * d
        k == 48 - mask
        canonical == Split(ret.cidr, "/")
    IN  (mac_range_call.pc = "returned" /\ ret.err = "")
        => /\ d \in 6..10
           /\ Len(Remove(canonical[1], ":")) = 12
           /\ canonical[2] = DecText(mask)
           /\ ret.first_address.hi = HexValue(SubSeq(prefix, 1, 6), 0)
           /\ ret.first_address.lo = HexValue(SubSeq(prefix, 7, d), 0) * Pow2(4 * (12 - d))
           /\ IF k >= 24
              THEN /\ ret.last_address.lo = ret.first_address.lo
                   /\ ret.last_address.hi - ret.first_address.hi = Pow2(k - 24)
              ELSE /\ ret.last_address.lo \in 0..(Pow2(24) - 1)
                   /\ (ret.last_address.hi - ret.first_address.hi) * Pow2(24)
                        + (ret.last_address.lo - ret.first_address.lo) = Pow2(k)

\* A prefix of seven digits with no mask has been accepted.
C14_Witness ==
    /\ mac_range_call.pc = "returned"
    /\ mac_range_call.val = <<"A", "A", ":", "B", "B", ":", "C", "C", ":", "0">>
    /\ mac_range_call.ret.err = ""

\* C15: every stored MAC range has first_address < last_address, both within
\* 48 bits (last_address at most 2^48).
C15_StoredRangeWithin48Bits ==
    \A i \in DOMAIN mac_address_ranges :
        LET first == mac_address_ranges[i].first_address
            last == mac_address_ranges[i].last_address
        IN  /\ first.hi < last.hi \/ (first.hi = last.hi /\ first.lo < last.lo)
            /\ first.hi < Pow2(24)
            /\ last.hi < Pow2(24) \/ (last.hi = Pow2(24) /\ last.lo = 0)

\* The subnet a create_subnet step creates.
NewSubnet == CHOOSE s \in SubnetIds : ~subnets[s].exists /\ subnets'[s].exists

\* C16: create_subnet with no gateway_ip and no default route among the host
\* routes returns the network address of the subnet plus one as gateway_ip and
\* stores exactly one default route, whose gateway is that address.
C16_SynthesizedGateway ==
    [][route_result'.op = "create_subnet" =>
       \A cidr \in SubnetCidrs, host_routes \in HostRouteLists :
         ((\A i \in DOMAIN host_routes : host_routes[i].destination.prefixlen # 0)
          /\ CreateSubnet(cidr, 0, host_routes, <<>>))
         => LET stored == HostRoutesOf(routes', NewSubnet)
                defaults == {i \in DOMAIN stored : stored[i].destination.prefixlen = 0}
                network == cidr.ip - (cidr.ip % Pow2(AddrBits - cidr.prefixlen))
            IN  /\ route_result'.gateway_ip = network + 1
                /\ Cardinality(defaults) = 1
                /\ \A i \in defaults : stored[i].nexthop = network + 1]_vars

\* A subnet whose network address is not zero was created with a host route
\* and the synthesized default route.
C16_Witness ==
    /\ route_result.op = "create_subnet"
    /\ route_result.gateway_ip = Pow2(AddrBits - 1) + 1
    /\ Len(routes) >= 2
    /\ \E i \in DOMAIN routes :
         routes[i].cidr = DefaultRouteText /\ routes[i].gateway = Pow2(AddrBits - 1) + 1

\* C17: create_subnet with a host route to 0.0.0.0/0 stores the host routes
\* and no other route, and returns the nexthop of that route as gateway_ip,
\* whatever gateway_ip the request gives.
C17_ExplicitDefaultRoute ==
    [][route_result'.op = "create_subnet" =>
       \A cidr \in SubnetCidrs, gateway_ip \in {0} \cup Nexthops, host_routes \in HostRouteLists :
         LET defaults == {i \in DOMAIN host_routes :
                            IPNetwork(host_routes[i].destination) = DEFAULT_ROUTE}
         IN  (defaults # {} /\ CreateSubnet(cidr, gateway_ip, host_routes, <<>>))
             => /\ HostRoutesOf(routes', NewSubnet) = host_routes
                /\ route_result'.gateway_ip = host_routes[Min(defaults)].nexthop]_vars

\* A subnet was created with one route, a default route in a text only a
\* request can have given, and its gateway was returned.
C17_Witness ==
    /\ route_result.op = "create_subnet"
    /\ Len(routes) = 1
    /\ routes[1].cidr = Cidr(4, 1, 0)
    /\ route_result.gateway_ip = routes[1].gateway

\* C18: create_subnet with a gateway_ip and no default route among the host
\* routes stores the host routes and one more route, to the wildcard network
\* of the IP version of the subnet through the gateway_ip; with a host route
\* to ::/0 on an IPv6 subnet it adds no route and returns the nexthop of that
\* route as gateway_ip.
C18_WildcardOfSubnetVersion ==
    [][route_result'.op = "create_subnet" =>
       \A cidr \in SubnetCidrs, gateway_ip \in Nexthops, host_routes \in HostRouteLists :
         CreateSubnet(cidr, gateway_ip, host_routes, <<>>)
         => LET stored == HostRoutesOf(routes', NewSubnet)
                v6defaults == {i \in DOMAIN host_routes :
                                 host_routes[i].destination = Cidr(6, 0, 0)}
            IN  /\ (\A i \in DOMAIN host_routes : host_routes[i].destination.prefixlen # 0)
                   => stored = Append(host_routes,
                                      [destination |-> Cidr(cidr.version, 0, 0),
                                       nexthop |-> gateway_ip])
                /\ (cidr.version = 6 /\ v6defaults # {})
                   => /\ stored = host_routes
                      /\ route_result'.gateway_ip \in
                           {host_routes[i].nexthop : i \in v6defaults}]_vars

\* C19: update_subnet with a list of host routes leaves exactly the routes of
\* the list stored for the subnet, with or without a gateway_ip in the
\* request, and returns as gateway_ip the nexthop of the default route of the
\* list, None (0) when it has none.
C19_RoutesReplaced ==
    [][\A id \in SubnetIds, gateway_ip \in {0} \cup Nexthops, host_routes \in HostRouteLists :
         LET defaults == {i \in DOMAIN host_routes :
                            IPNetwork(host_routes[i].destination) = DEFAULT_ROUTE}
         IN  (subnets[id].exists /\ UpdateSubnet(id, gateway_ip, host_routes, <<>>))
             => /\ HostRoutesOf(routes', id) = host_routes
                /\ IF defaults = {} THEN route_result'.gateway_ip = 0
                   ELSE route_result'.gateway_ip \in
                          {host_routes[i].nexthop : i \in defaults}]_vars

\* C20: update_subnet with a list of nameservers leaves exactly the
\* nameservers of the list stored for the subnet.
C20_NameserversReplaced ==
    [][\A id \in SubnetIds, dns_ips \in DnsLists :
         (subnets[id].exists /\ UpdateSubnet(id, 0, <<>>, dns_ips))
         => subnets'[id].dns_nameservers = dns_ips]_vars

\* C21: the conflict test of create_route gives the same answer with its two
\* destinations exchanged and answers TRUE for two texts of one network; a call
\* whose destination is that of a route stored for its subnet is refused at its
\* check, stores nothing and never gets to insert.
C21_ConflictSymmetricAndReflexive ==
    [][\A c \in RouteCallers :
         /\ (route_calls[c].pc = "idle" /\ route_calls'[c].pc # "idle") =>
               LET route_cidr == IPNetwork(route_calls'[c].cidr)
               IN  \A i \in RoutesOf(routes, route_calls'[c].subnet_id) :
                     LET sub_route_cidr == IPNetwork(routes[i].cidr)
                     IN  /\ RouteConflicts(route_cidr, sub_route_cidr)
                            = RouteConflicts(sub_route_cidr, route_cidr)
                         /\ route_cidr = sub_route_cidr =>
                               /\ RouteConflicts(route_cidr, sub_route_cidr)
                               /\ route_calls'[c].pc \in {"RouteConflict", "SubnetNotFound"}
                               /\ routes' = routes
         /\ route_calls[c].pc \in {"RouteConflict", "SubnetNotFound"} =>
               route_calls'[c] = route_calls[c]]_vars

\* A call was refused with RouteConflict for a destination written otherwise
\* than the stored route of the same network, and the table holds that route
\* alone.
C21_Witness ==
    \E c \in RouteCallers :
       /\ route_calls[c].pc = "RouteConflict"
       /\ Len(routes) = 1
       /\ routes[1].cidr # route_calls[c].cidr
       /\ IPNetwork(routes[1].cidr) = IPNetwork(route_calls[c].cidr)
       /\ IPNetwork(routes[1].cidr).first # IPNetwork(routes[1].cidr).last

\* The place of a step among the collaborators a call invoked, 0 when it was
\* not invoked.
StepAt(steps, step) ==
    IF step \in Range(steps) THEN Min({i \in DOMAIN steps : steps[i] = step}) ELSE 0

\* C22: a delete_port call that gets to the backend driver has by then called
\* the MAC deallocator, the IP deallocator and port_delete, in this order;
\* whether the driver returns or fails, the port is gone, its MAC address is
\* deallocated and so is every IP address that was on this port alone.
C22_DeallocatedBeforeBackend ==
    [][result'.op = "delete_port" =>
       \A p \in PortIds, backend_ok \in BOOLEAN :
         (ports[p].exists /\ DeletePort(p, TRUE, TRUE, backend_ok))
         => LET steps == result'.steps
            IN  /\ StepAt(steps, "deallocate_mac_address") = 1
                /\ StepAt(steps, "deallocate_ip_address") = 2
                /\ StepAt(steps, "port_delete") = 3
                /\ StepAt(steps, "net_driver.delete_port") = 4
                /\ ("BackendError" \in result'.err) = ~backend_ok
                /\ ~ports'[p].exists
                /\ \A i \in DOMAIN mac_addresses :
                      mac_addresses[i].address = ports[p].mac_address
                        => mac_addresses'[i].deallocated
                /\ \A i \in Range(ports[p].ip_addresses) :
                      PortsOf(ports, i) = {p} => ip_addresses'[i].deallocated]_vars

\* The backend driver failed in a delete_port call: no port is left, and a MAC
\* address and an IP address are deallocated.
C22_Witness ==
    /\ result.op = "delete_port"
    /\ result.err = {"BackendError"}
    /\ \A p \in PortIds : ~ports[p].exists
    /\ \E i \in DOMAIN mac_addresses : mac_addresses[i].deallocated
    /\ \E i \in DOMAIN ip_addresses : ip_addresses[i].deallocated

\* C23: update_ip_address with a list of port ids either leaves the address on
\* exactly the ports of the list, once on each, or, a port of the list not
\* existing, leaves every port as it was.
C23_PortsReplacedOrUntouched ==
    [][\A id \in DOMAIN ip_addresses, port_ids \in SeqsOf(PortIds, 0, 2) :
         UpdateIpAddress(id, TRUE, port_ids)
         => IF \A p \in Range(port_ids) : ports[p].exists
            THEN /\ PortsOf(ports', id) = Range(port_ids)
                 /\ \A p \in Range(port_ids) :
                       Cardinality({k \in DOMAIN ports'[p].ip_addresses :
                                      ports'[p].ip_addresses[k] = id}) = 1
            ELSE ports' = ports]_vars

\* The record an entry of fixed_ips names in tbl, 0 when it names none.
NamedRecord(tbl, ip) ==
    IF ip.kind = "ip_id" THEN (IF ip.v \in DOMAIN tbl THEN ip.v ELSE 0)
    ELSE IF ip.kind = "ip_address" THEN ip_address_find(tbl, ip.v)
    ELSE 0

\* C24: after a post_update_port call on an existing port with several
\* fixed_ips, each naming an address and none refused, the record of every
\* address named is associated with the port, once.
C24_EveryFixedIpAssociated ==
    [][\A p \in PortIds, fixed_ips \in SeqsOf(FixedIps, 2, MaxFixedIps) :
         (/\ ports[p].exists
          /\ \A k \in DOMAIN fixed_ips : fixed_ips[k].kind # "none"
          /\ \A k \in DOMAIN fixed_ips :
                fixed_ips[k].kind = "ip_id" => fixed_ips[k].v \in DOMAIN ip_addresses
          /\ ResolveFixedIps(ip_addresses, clock, fixed_ips, 0).err = ""
          /\ PostUpdatePort(p, fixed_ips))
         => \A k \in DOMAIN fixed_ips :
              LET id == NamedRecord(ip_addresses', fixed_ips[k])
              IN  /\ id # 0
                  /\ Cardinality({j \in DOMAIN ports'[p].ip_addresses :
                                     ports'[p].ip_addresses[j] = id}) = 1]_vars

\* C25: a delete_network call either removes the backend network, every
\* subnet and the network record, or leaves the backend network, the subnets
\* and the network record as they were.
C25_DeleteNetworkAllOrNothing ==
    [][\A backend_ok \in BOOLEAN :
         DeleteNetwork(backend_ok)
         => \/ /\ ~net'.exists
               /\ ~net'.backend
               /\ \A s \in SubnetIds : ~subnets'[s].exists
            \/ /\ net_result' # ""
               /\ net' = net
               /\ subnets' = subnets]_vars

\* Whether a route with the destination 0.0.0.0/0 is stored for the subnet.
HoldsDefaultRoute(tbl, subnet_id) ==
    \E i \in RoutesOf(tbl, subnet_id) : IPNetwork(tbl[i].cidr) = DEFAULT_ROUTE

====
